---- MODULE Spec2Model ----
(***************************************************************************)
(* GreenThumb plant care assistant (src/greenthumb_gui.py).                *)
(* The model follows the Plant data class and the PlantCareApp handlers.   *)
(* Text is a sequence of one-character strings, so lower() and the `in`    *)
(* substring test are computed.  A datetime is [day, tod]: the day ordinal *)
(* and the time of day; strftime(DATE_FMT) keeps the day only and strptime *)
(* yields midnight of that day.  Plant objects live in heap under their    *)
(* identity; plants and filtered_plants list identities, as the two Python *)
(* lists share the objects.  The status bar, written by the handlers and   *)
(* read by none, is left out.                                              *)
(*                                                                         *)
(* Spec       the whole application over DATA_FILE contents that load,     *)
(*            fail part-way or are absent                                  *)
(* SpecList   the same handlers within one instant of the clock            *)
(* SpecLoad   SpecList over every DATA_FILE content of the model           *)
(* SpecSaved  sessions that save to DATA_FILE and start again from it      *)
(* SpecFern   one week with plants watered every 3, fertilized every 10    *)
(*            days                                                         *)
(***************************************************************************)
EXTENDS Integers, Sequences, FiniteSets, TLC

\* ---------------------------------------------------------------- bounds
MaxPlants     == 2   \* records in a session of Spec
MaxDay        == 1   \* last day of Spec
MaxListed     == 2   \* records in a session of SpecList
MaxSaved      == 2   \* records in a session of SpecSaved
MaxSavedDay   == 2   \* the day of SpecSaved
MaxTod        == 1   \* last time of day
MaxFernDay    == 7   \* last day of SpecFern
MaxFernPlants == 1   \* records in a session of SpecFern

\* ------------------------------------------------------------------ text
Fern == <<"F", "e", "r", "n">>
Ivy  == <<"I", "v", "y">>
WaterWord     == <<"w", "a", "t", "e", "r">>
FertilizeWord == <<"f", "e", "r", "t", "i", "l", "i", "z", "e">>
BothWord      == <<"b", "o", "t", "h">>

UpperToLower ==
    ("A" :> "a") @@ ("B" :> "b") @@ ("C" :> "c") @@ ("D" :> "d") @@
    ("E" :> "e") @@ ("F" :> "f") @@ ("G" :> "g") @@ ("H" :> "h") @@
    ("I" :> "i") @@ ("J" :> "j") @@ ("K" :> "k") @@ ("L" :> "l") @@
    ("M" :> "m") @@ ("N" :> "n") @@ ("O" :> "o") @@ ("P" :> "p") @@
    ("Q" :> "q") @@ ("R" :> "r") @@ ("S" :> "s") @@ ("T" :> "t") @@
    ("U" :> "u") @@ ("V" :> "v") @@ ("W" :> "w") @@ ("X" :> "x") @@
    ("Y" :> "y") @@ ("Z" :> "z")

\* str.lower()
Lower(s) ==
    [i \in 1..Len(s) |->
        IF s[i] \in DOMAIN UpperToLower THEN UpperToLower[s[i]] ELSE s[i]]

\* the Python test `term in s` on strings
Contains(term, s) ==
    \E i \in 0..(Len(s) - Len(term)) : SubSeq(s, i + 1, i + Len(term)) = term

\* -------------------------------------------------------------- datetime
DateTime(d, t) == [day |-> d, tod |-> t]

\* dt + timedelta(days=n)
PlusDays(dt, n) == [day |-> dt.day + n, tod |-> dt.tod]

\* dt.date()
DateOf(dt) == dt.day

\* dt.strftime(DATE_FMT): the ISO text of the calendar day, named by its ordinal
Strftime(dt) == dt.day

\* datetime.strptime(text, DATE_FMT): midnight of the day
Strptime(d) == [day |-> d, tod |-> 0]

\* ------------------------------------------------- values read from outside
\* a dialog answer or a JSON value handed to int(): an integer, a numeric
\* text, a non-numeric text, or None
VInt(n)    == [t |-> "int", n |-> n]
VNumStr(n) == [t |-> "numstr", n |-> n]
VText      == [t |-> "text", n |-> 0]
VNone      == [t |-> "none", n |-> 0]
\* a JSON true or false: bool is a subclass of int, int(True) = 1
VBool(b)   == [t |-> "bool", n |-> IF b THEN 1 ELSE 0]

\* int() taking text that is no number for 0
PyIntLenient(v) ==
    CASE v.t = "int"    -> [exc |-> "", n |-> v.n]
      [] v.t = "numstr" -> [exc |-> "", n |-> v.n]
      [] v.t = "bool"   -> [exc |-> "", n |-> v.n]
      [] v.t = "text"   -> [exc |-> "", n |-> 0]
      [] OTHER          -> [exc |-> "TypeError", n |-> 0]

\* int(v): ValueError on non-numeric text, TypeError on None
PyInt(v) ==
    CASE v.t = "int"    -> [exc |-> "", n |-> v.n]
      [] v.t = "numstr" -> [exc |-> "", n |-> v.n]
      [] v.t = "bool"   -> [exc |-> "", n |-> v.n]
      [] v.t = "text"   -> [exc |-> "ValueError", n |-> 0]
      [] OTHER          -> [exc |-> "TypeError", n |-> 0]

\* a stored date value: ISO text of a day, text that is no date, or null
JDate(d) == [t |-> "date", d |-> d]
JBadDate == [t |-> "bad", d |-> 0]
JNull    == [t |-> "null", d |-> 0]

\* ------------------------------------------------------------ Plant model
\* Plant.__init__: int() of both intervals, then the dates parsed or "now"
PlantInit(name, water_interval, fertilize_interval, lw, lf, clock) ==
    LET w == PyInt(water_interval)
        f == PyInt(fertilize_interval)
        last_watered == lw
        last_fertilized == lf
    IN  IF w.exc # "" THEN [exc |-> w.exc]
        ELSE IF f.exc # "" THEN [exc |-> f.exc]
        ELSE IF last_watered.t = "bad" THEN [exc |-> "ValueError"]
        ELSE IF last_fertilized.t = "bad" THEN [exc |-> "ValueError"]
        ELSE [exc |-> "",
              plant |->
                [name               |-> name,
                 water_interval     |-> w.n,
                 fertilize_interval |-> f.n,
                 last_watered       |-> IF last_watered.t = "date"
                                        THEN Strptime(last_watered.d)
                                        ELSE clock,
                 last_fertilized    |-> IF last_fertilized.t = "date"
                                        THEN Strptime(last_fertilized.d)
                                        ELSE clock]]

next_water_due(p) == PlusDays(p.last_watered, p.water_interval)

next_fert_due(p) == PlusDays(p.last_fertilized, p.fertilize_interval)

\* Plant.status(): the name and the two due dates
status(p) ==
    [name         |-> p.name,
     water_by     |-> DateOf(next_water_due(p)),
     fertilize_by |-> DateOf(next_fert_due(p))]

\* needs_care_today comparing the datetimes instead of their dates
needs_care_today_datetime(p, clock) ==
    LET Before(a, b) == a.day < b.day \/ (a.day = b.day /\ a.tod <= b.tod)
    IN  \/ Before(next_water_due(p), clock)
        \/ Before(next_fert_due(p), clock)

\* Plant.needs_care_today() with datetime.now() = clock
needs_care_today(p, clock) ==
    LET today == DateOf(clock)
    IN  \/ DateOf(next_water_due(p)) <= today
        \/ DateOf(next_fert_due(p)) <= today

\* to_dict writing each date under the other key
to_dict_swapped(p) ==
    [keys_ok            |-> TRUE,
     name               |-> p.name,
     water_interval     |-> VInt(p.water_interval),
     fertilize_interval |-> VInt(p.fertilize_interval),
     last_watered       |-> JDate(Strftime(p.last_fertilized)),
     last_fertilized    |-> JDate(Strftime(p.last_watered))]

\* Plant.to_dict(): one JSON object
to_dict(p) ==
    [keys_ok            |-> TRUE,
     name               |-> p.name,
     water_interval     |-> VInt(p.water_interval),
     fertilize_interval |-> VInt(p.fertilize_interval),
     last_watered       |-> JDate(Strftime(p.last_watered)),
     last_fertilized    |-> JDate(Strftime(p.last_fertilized))]

\* ------------------------------------------------------ persisted file
\* the content of DATA_FILE: absent, not JSON, or a JSON array of objects
FileMissing   == [kind |-> "missing", entries |-> <<>>]
FileCorrupt   == [kind |-> "corrupt", entries |-> <<>>]
FileJson(es)  == [kind |-> "json", entries |-> es]

Entry(name, w, f, lw, lf) ==
    [keys_ok |-> TRUE, name |-> name, water_interval |-> w,
     fertilize_interval |-> f, last_watered |-> lw, last_fertilized |-> lf]

\* an object whose keys are not the constructor's parameters
BadKeysEntry ==
    [keys_ok |-> FALSE, name |-> <<>>, water_interval |-> VNone,
     fertilize_interval |-> VNone, last_watered |-> JNull,
     last_fertilized |-> JNull]

GoodFern    == Entry(Fern, VInt(1), VInt(2), JDate(0), JDate(0))
GoodIvy     == Entry(Ivy, VNumStr(2), VInt(1), JDate(0), JNull)
BadInterval == Entry(Ivy, VText, VInt(1), JDate(0), JDate(0))
BadDate     == Entry(Ivy, VInt(1), VInt(1), JDate(0), JBadDate)
BadFertilize == Entry(Ivy, VInt(1), VNone, JDate(0), JDate(0))
BoolInterval == Entry(Ivy, VBool(TRUE), VInt(1), JDate(0), JDate(0))
Yesterday == 0 - 1
OldFern == Entry(Fern, VInt(1), VInt(2), JDate(Yesterday), JDate(Yesterday))

\* Plant(**entry)
PlantFromEntry(entry, clock) ==
    IF ~entry.keys_ok THEN [exc |-> "TypeError"]
    ELSE PlantInit(entry.name, entry.water_interval, entry.fertilize_interval,
                   entry.last_watered, entry.last_fertilized, clock)

\* the loop of load_data: append one Plant per entry until one raises
RECURSIVE LoadEntries(_, _, _)
LoadEntries(entries, acc, clock) ==
    IF entries = <<>> THEN [exc |-> "", plants |-> acc]
    ELSE LET r == PlantFromEntry(Head(entries), clock)
         IN  IF r.exc # "" THEN [exc |-> r.exc, plants |-> acc]
             ELSE LoadEntries(Tail(entries), Append(acc, r.plant), clock)

\* load_data without the os.path.exists test: open() raises on a missing file
load_data_no_exists_test(f, clock) ==
    IF f.kind = "missing"
    THEN [found |-> TRUE, exc |-> "FileNotFoundError", plants |-> <<>>]
    ELSE IF f.kind = "corrupt"
         THEN [found |-> TRUE, exc |-> "JSONDecodeError", plants |-> <<>>]
    ELSE LET r == LoadEntries(f.entries, <<>>, clock)
         IN  [found |-> TRUE, exc |-> r.exc, plants |-> r.plants]

\* load_data on the freshly constructed application (plants = []):
\*   found   whether DATA_FILE exists
\*   exc     the exception caught, "" when none
\*   plants  the records self.plants holds afterwards
load_data(f, clock) ==
    IF f.kind = "missing" THEN [found |-> FALSE, exc |-> "", plants |-> <<>>]
    ELSE IF f.kind = "corrupt"
         THEN [found |-> TRUE, exc |-> "JSONDecodeError", plants |-> <<>>]
    ELSE LET r == LoadEntries(f.entries, <<>>, clock)
         IN  [found |-> TRUE, exc |-> r.exc, plants |-> r.plants]

\* the JSON array save_data writes
Serialize(objs) == [i \in 1..Len(objs) |-> to_dict(objs[i])]

\* ----------------------------------------------------------------- state
VARIABLES
    running,          \* the application window exists
    now,              \* datetime.now()
    file,             \* content of DATA_FILE
    heap,             \* the Plant objects, by identity
    plants,           \* self.plants: identities in insertion order
    filtered_plants,  \* self.filtered_plants
    search_var,       \* text of the search box
    listbox,          \* rows of the listbox
    curselection,     \* selected row, 0 when none
    messagebox        \* dialog shown by the last handler

vars == <<running, now, file, heap, plants, filtered_plants, search_var,
          listbox, curselection, messagebox>>

\* a dialog: its title, the plant it names, the status lines it lists
NoDialog == [title |-> "", name |-> <<>>, body |-> <<>>]
Dialog(title) == [title |-> title, name |-> <<>>, body |-> <<>>]

\* the objects a list of identities refers to
Objs(ids, h) == [i \in 1..Len(ids) |-> h[ids[i]]]

Range(s) == { s[i] : i \in 1..Len(s) }

\* keep the objects some list still refers to
Collect(h, keep) == [i \in (DOMAIN h) \cap keep |-> h[i]]

\* identity of a newly constructed object
NewId(h) ==
    CHOOSE i \in 1..(Cardinality(DOMAIN h) + 1) :
        i \notin DOMAIN h /\ \A j \in 1..(i - 1) : j \in DOMAIN h

\* list.remove(x) if Plant compared by field values (an __eq__ over the fields)
ListRemoveByFields(s, x) ==
    LET k == CHOOSE i \in 1..Len(s) :
                 heap[s[i]] = heap[x] /\ \A j \in 1..(i - 1) : heap[s[j]] # heap[x]
    IN  SubSeq(s, 1, k - 1) \o SubSeq(s, k + 1, Len(s))

\* list.remove(x): drop the first element equal to x; Plant defines no
\* __eq__, so equality is identity
ListRemove(s, x) ==
    LET k == CHOOSE i \in 1..Len(s) : s[i] = x /\ \A j \in 1..(i - 1) : s[j] # x
    IN  SubSeq(s, 1, k - 1) \o SubSeq(s, k + 1, Len(s))

\* update_filter lowering the term and not the names
FilterByTermNameAsIs(ids, h, text) ==
    LET term == Lower(text)
    IN  SelectSeq(ids, LAMBDA id : Contains(term, h[id].name))

\* the list comprehension of update_filter
FilterByTerm(ids, h, text) ==
    LET term == Lower(text)
    IN  SelectSeq(ids, LAMBDA id : Contains(term, Lower(h[id].name)))

\* refresh_list inserting every row at the top of the listbox
RowsInsertedAtTop(ids, h, clock) ==
    [i \in 1..Len(ids) |->
        [line |-> status(h[ids[Len(ids) + 1 - i]]),
         warn |-> needs_care_today(h[ids[Len(ids) + 1 - i]], clock)]]

\* the rows refresh_list inserts
Rows(ids, h, clock) ==
    [i \in 1..Len(ids) |->
        [line |-> status(h[ids[i]]), warn |-> needs_care_today(h[ids[i]], clock)]]

\* view_reminders reading the filtered view instead of the collection
RemindersOfView(ids, h, clock) ==
    LET due == SelectSeq(filtered_plants,
                         LAMBDA id : needs_care_today(h[id], clock))
    IN  [i \in 1..Len(due) |-> status(h[due[i]])]

\* the list comprehension of view_reminders
Reminders(ids, h, clock) ==
    LET due == SelectSeq(ids, LAMBDA id : needs_care_today(h[id], clock))
    IN  [i \in 1..Len(due) |-> status(h[due[i]])]

\* the files a session of Spec may find
InitialFiles ==
    { FileMissing, FileJson(<<GoodFern, GoodIvy>>),
      FileJson(<<GoodFern, BadInterval>>), FileJson(<<GoodFern, BadDate>>),
      FileJson(<<BadKeysEntry, GoodFern>>) }

InitWith(files) ==
    /\ running = FALSE
    /\ now = DateTime(0, 0)
    /\ file \in files
    /\ heap = <<>>
    /\ plants = <<>>
    /\ filtered_plants = <<>>
    /\ search_var = <<>>
    /\ listbox = <<>>
    /\ curselection = 0
    /\ messagebox = NoDialog

\* PlantCareApp.__init__: empty lists, the widgets, then load_data
Launch ==
    /\ ~running
    /\ running' = TRUE
    /\ LET r   == load_data(file, now)
           ids == [i \in 1..Len(r.plants) |-> i]
       IN  /\ heap' = r.plants
           /\ plants' = ids
           /\ filtered_plants' = IF r.exc = "" THEN ids ELSE <<>>
           /\ listbox' = IF r.found /\ r.exc = "" THEN Rows(ids, r.plants, now)
                         ELSE <<>>
           /\ messagebox' = IF r.exc # "" THEN Dialog("Load Error") ELSE NoDialog
    /\ search_var' = <<>>
    /\ curselection' = 0
    /\ UNCHANGED <<now, file>>

\* exit_app: the main loop ends and the process with it
ExitApp ==
    /\ running
    /\ running' = FALSE
    /\ heap' = <<>>
    /\ plants' = <<>>
    /\ filtered_plants' = <<>>
    /\ search_var' = <<>>
    /\ listbox' = <<>>
    /\ curselection' = 0
    /\ messagebox' = NoDialog
    /\ UNCHANGED <<now, file>>

\* the clock advances, up to day maxDay and time of day maxTod
TickTo(maxDay, maxTod) ==
    \E d \in {now.day, now.day + 1}, t \in 0..maxTod :
        /\ d <= maxDay
        /\ d > now.day \/ t > now.tod
        /\ now' = DateTime(d, t)
        /\ UNCHANGED <<running, file, heap, plants, filtered_plants,
                       search_var, listbox, curselection, messagebox>>

\* the user clicks a row of the listbox
Select ==
    /\ running
    /\ \E i \in 1..Len(listbox) : curselection' = i
    /\ UNCHANGED <<running, now, file, heap, plants, filtered_plants,
                   search_var, listbox, messagebox>>

\* update_filter, run by every write of the search box
UpdateFilterWith(texts) ==
    /\ running
    /\ \E text \in texts :
        /\ search_var' = text
        /\ filtered_plants' = FilterByTerm(plants, heap, text)
    /\ listbox' = Rows(filtered_plants', heap, now)
    /\ curselection' = 0
    /\ heap' = Collect(heap, Range(plants) \cup Range(filtered_plants'))
    /\ messagebox' = NoDialog
    /\ UNCHANGED <<running, now, file, plants>>

\* the "Refresh List" button: refresh_list
RefreshList ==
    /\ running
    /\ listbox' = Rows(filtered_plants, heap, now)
    /\ curselection' = 0
    /\ messagebox' = NoDialog
    /\ UNCHANGED <<running, now, file, heap, plants, filtered_plants,
                   search_var>>

\* add_plant, the collection holding at most maxPlants records
AddPlantWith(names, waters, ferts, maxPlants) ==
    /\ running
    /\ \E name \in names, water \in waters, fert \in ferts :
        LET w == PyInt(water)
            f == PyInt(fert)
        IN  \/ /\ name = <<>>                       \* canceled
               /\ messagebox' = NoDialog
               /\ UNCHANGED <<heap, plants, filtered_plants, listbox,
                              curselection>>
            \/ /\ name # <<>>
               /\ w.exc # "" \/ f.exc # ""
               /\ messagebox' = Dialog("Invalid Input")
               /\ UNCHANGED <<heap, plants, filtered_plants, listbox,
                              curselection>>
            \/ /\ name # <<>>
               /\ w.exc = "" /\ f.exc = ""
               /\ Len(plants) < maxPlants
               /\ LET r  == PlantInit(name, VInt(w.n), VInt(f.n),
                                      JNull, JNull, now)
                      id == NewId(heap)
                  IN  /\ heap' = Collect((id :> r.plant) @@ heap,
                                         Range(plants) \cup {id})
                      /\ plants' = Append(plants, id)
               /\ filtered_plants' = plants'
               /\ listbox' = Rows(filtered_plants', heap', now)
               /\ curselection' = 0
               /\ messagebox' = NoDialog
    /\ UNCHANGED <<running, now, file, search_var>>

\* update_care resetting the fertilizing date when watering is answered
CareUpdateWrongField(p, answer, clock) ==
    LET action == Lower(answer)
    IN  [p EXCEPT
           !.last_fertilized = IF Contains(WaterWord, action)
                                  \/ Contains(FertilizeWord, action)
                               THEN clock ELSE @]

\* the assignments of update_care for one answer
CareUpdate(p, answer, clock) ==
    LET action == Lower(answer)
    IN  [p EXCEPT
           !.last_watered    = IF Contains(WaterWord, action)
                               THEN clock ELSE @,
           !.last_fertilized = IF Contains(FertilizeWord, action)
                               THEN clock ELSE @]

\* update_care
UpdateCareWith(answers) ==
    /\ running
    /\ \/ /\ curselection = 0                       \* _validate_selection
          /\ messagebox' = Dialog("Select Plant")
          /\ UNCHANGED <<heap, listbox, curselection>>
       \/ /\ curselection # 0
          /\ \E answer \in answers :
              LET id == filtered_plants[curselection]
              IN  heap' = [heap EXCEPT ![id] = CareUpdate(@, answer, now)]
          /\ listbox' = Rows(filtered_plants, heap', now)
          /\ curselection' = 0
          /\ messagebox' = NoDialog
    /\ UNCHANGED <<running, now, file, plants, filtered_plants, search_var>>

\* delete_plant removing the record from self.plants alone
DeletePlantCollectionOnly ==
    /\ running
    /\ \/ /\ curselection = 0
          /\ messagebox' = Dialog("Select Plant")
          /\ UNCHANGED <<heap, plants, filtered_plants, listbox,
                         curselection>>
       \/ /\ curselection # 0
          /\ messagebox' = [title |-> "Delete Plant",
                            name |-> heap[filtered_plants[curselection]].name,
                            body |-> <<>>]
          /\ \/ UNCHANGED <<heap, plants, filtered_plants, listbox,
                            curselection>>
             \/ LET id == filtered_plants[curselection]
                IN  /\ id \in Range(plants)
                    /\ plants' = ListRemove(plants, id)
                    /\ filtered_plants' = filtered_plants
                    /\ heap' = heap
                    /\ listbox' = Rows(filtered_plants', heap', now)
                    /\ curselection' = 0
    /\ UNCHANGED <<running, now, file, search_var>>

\* delete_plant
DeletePlant ==
    /\ running
    /\ \/ /\ curselection = 0                       \* _validate_selection
          /\ messagebox' = Dialog("Select Plant")
          /\ UNCHANGED <<heap, plants, filtered_plants, listbox,
                         curselection>>
       \/ /\ curselection # 0
          /\ messagebox' = [title |-> "Delete Plant",
                            name |-> heap[filtered_plants[curselection]].name,
                            body |-> <<>>]
          /\ \/ UNCHANGED <<heap, plants, filtered_plants, listbox,
                            curselection>>                       \* "No"
             \/ LET id == filtered_plants[curselection]
                IN  /\ plants' = ListRemove(plants, id)
                    /\ filtered_plants' = ListRemove(filtered_plants, id)
                    /\ heap' = Collect(heap, Range(plants')
                                               \cup Range(filtered_plants'))
                    /\ listbox' = Rows(filtered_plants', heap', now)
                    /\ curselection' = 0
    /\ UNCHANGED <<running, now, file, search_var>>

\* view_reminders
ViewReminders ==
    /\ running
    /\ LET reminders == Reminders(plants, heap, now)
       IN  messagebox' = IF reminders # <<>>
                         THEN [title |-> "Today's Care Reminders",
                               name |-> <<>>, body |-> reminders]
                         ELSE Dialog("You're Good!")
    /\ UNCHANGED <<running, now, file, heap, plants, filtered_plants,
                   search_var, listbox, curselection>>

DATA_FILE == "plants.json"
OtherPath == "backup.json"

\* save_data dropping the list when the write raises
SaveDataClearsOnError(paths) ==
    /\ running
    /\ \E path \in paths :
        \/ /\ path = ""
           /\ messagebox' = NoDialog
           /\ UNCHANGED <<file, heap, plants, filtered_plants>>
        \/ /\ path # ""
           /\ file' = IF path = DATA_FILE
                      THEN FileJson(Serialize(Objs(plants, heap)))
                      ELSE file
           /\ messagebox' = NoDialog
           /\ UNCHANGED <<heap, plants, filtered_plants>>
        \/ /\ path # ""
           /\ file' \in IF path = DATA_FILE THEN {file, FileCorrupt}
                        ELSE {file}
           /\ messagebox' = Dialog("Save Error")
           /\ heap' = <<>>
           /\ plants' = <<>>
           /\ filtered_plants' = <<>>
    /\ UNCHANGED <<running, now, search_var, listbox, curselection>>

\* save_data: the path dialog, then the write, which succeeds or raises
SaveDataWith(paths) ==
    /\ running
    /\ \E path \in paths :
        \/ /\ path = ""                             \* canceled
           /\ messagebox' = NoDialog
           /\ UNCHANGED file
        \/ /\ path # ""
           /\ file' = IF path = DATA_FILE
                      THEN FileJson(Serialize(Objs(plants, heap)))
                      ELSE file
           /\ messagebox' = NoDialog
        \/ /\ path # ""
           \* open() raised, or the write broke off after truncating
           /\ file' \in IF path = DATA_FILE THEN {file, FileCorrupt}
                        ELSE {file}
           /\ messagebox' = Dialog("Save Error")
    /\ UNCHANGED <<running, now, heap, plants, filtered_plants, search_var,
                   listbox, curselection>>

\* ------------------------------------------------- the whole application
\* sessions over the files of InitialFiles; the user saves to another path
SearchTexts  == { <<>>, <<"F">> }
NameAnswers  == { <<>>, Fern, Ivy }
WaterAnswers == { VNumStr(0), VNumStr(1), VText }
FertAnswers  == { VNumStr(1), VNone }
CareAnswers  == { <<>>, WaterWord, FertilizeWord, BothWord }

Init == InitWith(InitialFiles)
Tick == TickTo(MaxDay, 0)
UpdateFilter == UpdateFilterWith(SearchTexts)
AddPlant == AddPlantWith(NameAnswers, WaterAnswers, FertAnswers, MaxPlants)
UpdateCare == UpdateCareWith(CareAnswers)
SavePaths == { "", OtherPath }
SaveData == SaveDataWith(SavePaths)

Next ==
    \/ Launch
    \/ ExitApp
    \/ Tick
    \/ Select
    \/ AddPlant
    \/ UpdateCare
    \/ DeletePlant
    \/ UpdateFilter
    \/ RefreshList
    \/ ViewReminders
    \/ SaveData

Spec == Init /\ [][Next]_vars

\* ------------------------------------------------- a frozen clock
\* sessions within one instant, over files that load: the lists alone change
ListFiles == { FileMissing, FileJson(<<GoodFern, GoodIvy>>) }
InitList == InitWith(ListFiles)
ListNames == { <<>>, Fern, Ivy }
ListWaters == { VNumStr(1), VText }
ListFerts == { VNumStr(1) }
AddPlantList == AddPlantWith(ListNames, ListWaters, ListFerts, MaxListed)
ListTexts == { <<>>, <<"F">>, <<"Y">> }
UpdateFilterList == UpdateFilterWith(ListTexts)
ListCareAnswers == { <<>>, WaterWord }
UpdateCareList == UpdateCareWith(ListCareAnswers)
SaveDataList == SaveDataWith(SavePaths)

NextList ==
    \/ Launch
    \/ ExitApp
    \/ Select
    \/ AddPlantList
    \/ UpdateCareList
    \/ DeletePlant
    \/ UpdateFilterList
    \/ RefreshList
    \/ ViewReminders
    \/ SaveDataList

SpecList == InitList /\ [][NextList]_vars

\* ------------------------------------------ every file of the model
\* the sessions of SpecList over files of which some entry raises as well,
\* and over a file saved the day before
LoadFiles ==
    InitialFiles \cup
        { FileJson(<<BadFertilize, GoodFern>>),
          FileJson(<<GoodFern, BoolInterval>>),
          FileJson(<<OldFern, GoodIvy>>) }

InitLoad == InitWith(LoadFiles)

SpecLoad == InitLoad /\ [][NextList]_vars

\* ------------------------------------------------ sessions that save
\* a session on day MaxSavedDay holding any collection of records watered
\* on an earlier day; the user searches, saves to any path, quits and
\* starts the program again
SavedTemplates ==
    { [name |-> Fern, water_interval |-> 1, fertilize_interval |-> 10],
      [name |-> Ivy, water_interval |-> -1, fertilize_interval |-> 2] }

SavedRecords ==
    { [name               |-> k.name,
       water_interval     |-> k.water_interval,
       fertilize_interval |-> k.fertilize_interval,
       last_watered       |-> DateTime(d, t),
       last_fertilized    |-> DateTime(0, 0)] :
         k \in SavedTemplates,
         d \in 0..(MaxSavedDay - 1), t \in 0..MaxTod }

InitSaved ==
    /\ running = TRUE
    /\ now = DateTime(MaxSavedDay, 0)
    /\ file = FileMissing
    /\ \E n \in 0..MaxSaved : heap \in [1..n -> SavedRecords]
    /\ plants = [i \in 1..Len(heap) |-> i]
    /\ filtered_plants = plants
    /\ search_var = <<>>
    /\ listbox = Rows(plants, heap, now)
    /\ curselection = 0
    /\ messagebox = NoDialog

SavedTexts == { <<>>, <<"x">> }
UpdateFilterSaved == UpdateFilterWith(SavedTexts)
SavedPaths == { "", DATA_FILE, OtherPath }
SaveDataSaved == SaveDataWith(SavedPaths)

NextSaved ==
    \/ SaveDataSaved
    \/ ExitApp
    \/ Launch
    \/ UpdateFilterSaved
    \/ ViewReminders

SpecSaved == InitSaved /\ [][NextSaved]_vars

\* ------------------------------------------------- the "Fern" scenario
\* plants watered every 3 and fertilized every 10 days, over a week
FernFiles == { FileMissing }
InitFern == InitWith(FernFiles)
TickFern == TickTo(MaxFernDay, 0)
FernNames == { <<>>, Fern }
FernWaters == { VNumStr(3), VText }
FernFerts == { VNumStr(10) }
AddPlantFern == AddPlantWith(FernNames, FernWaters, FernFerts, MaxFernPlants)
UpdateCareFern == UpdateCareWith(ListCareAnswers)

NextFern ==
    \/ Launch
    \/ TickFern
    \/ Select
    \/ AddPlantFern
    \/ UpdateCareFern
    \/ ViewReminders

SpecFern == InitFern /\ [][NextFern]_vars

\* ================================================================ claims
Selected == filtered_plants[curselection]

\* C1: the filtered view is exactly the records of the collection whose
\* names contain the search term ignoring case, after every operation and in
\* particular after an add made while a search term is active.
C1_FilteredViewMatchesTerm ==
    running => filtered_plants = FilterByTerm(plants, heap, search_var)

\* C2: add rejects an interval that is no positive integer, so every record
\* of the collection has both intervals >= 1.
C2_IntervalsPositive ==
    \A id \in Range(plants) :
        heap[id].water_interval >= 1 /\ heap[id].fertilize_interval >= 1

\* C3: while the report of a failed load stands, the collection is empty.
C3_FailedLoadLeavesEmpty ==
    messagebox.title = "Load Error" => plants = <<>>

WaterRequested(answer) == answer \in { WaterWord, BothWord }
FertilizeRequested(answer) == answer \in { FertilizeWord, BothWord }

\* C4: update_care on the selected record sets last_watered to now exactly
\* when the answer is 'water' or 'both', last_fertilized to now exactly when
\* it is 'fertilize' or 'both', and shows no error.
C4_UpdateCareSetsRequestedDates ==
    [][\A answer \in CareAnswers :
          (curselection # 0 /\ UpdateCareWith({answer})) =>
              /\ heap'[Selected].last_watered =
                    IF WaterRequested(answer) THEN now
                    ELSE heap[Selected].last_watered
              /\ heap'[Selected].last_fertilized =
                    IF FertilizeRequested(answer) THEN now
                    ELSE heap[Selected].last_fertilized
              /\ messagebox' = NoDialog]_vars

SameRecord(p, q) ==
    /\ q.name = p.name
    /\ q.water_interval = p.water_interval
    /\ q.fertilize_interval = p.fertilize_interval
    /\ DateOf(q.last_watered) = DateOf(p.last_watered)
    /\ DateOf(q.last_fertilized) = DateOf(p.last_fertilized)

C6_NeedsCareIffDue ==
    \A id \in DOMAIN heap :
        \A d \in 0..(MaxSavedDay + 10), t \in 0..MaxTod :
            needs_care_today(heap[id], DateTime(d, t)) <=>
                \/ d >= heap[id].last_watered.day + heap[id].water_interval
                \/ d >= heap[id].last_fertilized.day
                            + heap[id].fertilize_interval

\* on the very day watering falls due, earlier in the day than the plant
\* was last watered and before fertilizing is due, the reminders name it
C6_Witness ==
    /\ running
    /\ messagebox.title = "Today's Care Reminders"
    /\ \E id \in Range(plants) :
          /\ now.day = heap[id].last_watered.day + heap[id].water_interval
          /\ now.tod < heap[id].last_watered.tod
          /\ now.day < heap[id].last_fertilized.day + heap[id].fertilize_interval
          /\ status(heap[id]) \in Range(messagebox.body)

Without(s, x) == SelectSeq(s, LAMBDA y : y # x)

\* C7: a confirmed delete removes the selected record, and only it, from the
\* collection and from the filtered view; the other records stay, unchanged
\* and in their order, also when they have the same name or the same fields.
C7_DeleteRemovesSelectedOnly ==
    [][(curselection # 0 /\ DeletePlant /\ plants' # plants) =>
          /\ Len(plants') = Len(plants) - 1
          /\ plants' = Without(plants, Selected)
          /\ filtered_plants' = Without(filtered_plants, Selected)
          /\ \A id \in Range(plants') : heap'[id] = heap[id]]_vars

\* of two records named Fern the first was deleted on confirmation and the
\* second is left, in the collection and in the list
C7_Witness ==
    /\ running
    /\ messagebox.title = "Delete Plant"
    /\ messagebox.name = Fern
    /\ curselection = 0
    /\ plants = <<2>>
    /\ filtered_plants = <<2>>
    /\ heap[2].name = Fern
    /\ Len(listbox) = 1

FernScenario(id) ==
    /\ heap[id].water_interval = 3
    /\ heap[id].fertilize_interval = 10
    /\ heap[id].last_fertilized.day = 0

InReminders(id) == status(heap[id]) \in Range(Reminders(plants, heap, now))

C8_DueByDay ==
    \A id \in Range(plants) :
        FernScenario(id) =>
            /\ heap[id].last_watered.day = 0 => (InReminders(id) <=> now.day >= 3)
            /\ heap[id].last_watered.day = 3 => (InReminders(id) <=> now.day >= 6)

C8_WateredOnDayThree ==
    (/\ curselection # 0
     /\ now.day = 3
     /\ FernScenario(Selected)
     /\ InReminders(Selected)
     /\ UpdateCareWith({WaterWord}))
        => status(heap'[Selected]) \notin Range(Reminders(plants', heap', now'))

\* C8: a plant added on day 0 with water_interval 3 and fertilize_interval 10
\* is not among the reminders on days 0..2 and is on day 3; update_care
\* (water) on day 3 takes it out of the reminders, where it stays out until
\* day 6.
C8_FernScenario == []C8_DueByDay /\ [][C8_WateredOnDayThree]_vars

\* on day 3 the plant added on day 0 has been watered and the reminders,
\* asked again, name no plant
C8_Witness ==
    /\ running
    /\ now.day = 3
    /\ \E id \in Range(plants) :
          FernScenario(id) /\ heap[id].last_watered.day = 3
    /\ messagebox.title = "You're Good!"

\* C9: save_data, whether it is canceled, writes the file or fails, leaves
\* the collection, its records, the filtered view and the list as they
\* were, and the session goes on.
C9_SaveLeavesMemory ==
    [][SaveDataSaved =>
          UNCHANGED <<running, heap, plants, filtered_plants, search_var,
                      listbox, curselection>>]_vars

\* a save broke off leaving a damaged file; the two records and the
\* (empty) filtered view of the search are still there
C9_Witness ==
    /\ running
    /\ messagebox.title = "Save Error"
    /\ file = FileCorrupt
    /\ Len(plants) = 2
    /\ search_var = <<"x">>
    /\ filtered_plants = <<>>

\* C10: starting when DATA_FILE does not exist gives an empty collection and
\* an empty filtered view and shows no error.
C10_MissingFileLoadsEmpty ==
    [][(Launch /\ file.kind = "missing") =>
          /\ plants' = <<>>
          /\ filtered_plants' = <<>>
          /\ listbox' = <<>>
          /\ messagebox' = NoDialog]_vars

\* the program runs, started without a file, with nothing loaded and no
\* dialog shown
C10_Witness ==
    /\ running
    /\ file = FileMissing
    /\ plants = <<>>
    /\ filtered_plants = <<>>
    /\ heap = <<>>
    /\ search_var = <<>>
    /\ messagebox = NoDialog

\* the same letter, whatever its case
SameLetter(a, b) ==
    \/ a = b
    \/ a \in DOMAIN UpperToLower /\ UpperToLower[a] = b
    \/ b \in DOMAIN UpperToLower /\ UpperToLower[b] = a
    \/ /\ a \in DOMAIN UpperToLower
       /\ b \in DOMAIN UpperToLower
       /\ UpperToLower[a] = UpperToLower[b]

\* term occurs in name at some offset, letter by letter ignoring case
OccursIgnoringCase(term, name) ==
    \E off \in 0..(Len(name) - Len(term)) :
        \A k \in 1..Len(term) : SameLetter(term[k], name[off + k])

\* s lists elements of all, each once, in the order they have in all
Subsequence(s, all) ==
    \E pos \in [1..Len(s) -> 1..Len(all)] :
        /\ \A i \in 1..Len(s) : all[pos[i]] = s[i]
        /\ \A i, j \in 1..Len(s) : i < j => pos[i] < pos[j]

\* C11: after the search box is written, the filtered view holds exactly
\* the records of the collection whose name contains the term ignoring
\* case, in the order of the collection; the empty term gives them all.
C11_FilterByName ==
    [][UpdateFilterList =>
          /\ Subsequence(filtered_plants', plants')
          /\ \A id \in Range(plants') :
                id \in Range(filtered_plants')
                    <=> OccursIgnoringCase(search_var', heap'[id].name)
          /\ search_var' = <<>> => filtered_plants' = plants']_vars

\* "Y" was typed: of Fern and Ivy the view holds Ivy, the second record
C11_Witness ==
    /\ running
    /\ search_var = <<"Y">>
    /\ Len(plants) = 2
    /\ heap[plants[1]].name = Fern
    /\ heap[plants[2]].name = Ivy
    /\ filtered_plants = <<plants[2]>>
    /\ Len(listbox) = 1

\* a stored interval that int() reads no number from: text that is no number,
\* or null
NonNumeric(v) == v.t \in { "text", "none" }

NonNumericInterval(e) ==
    e.keys_ok /\ (NonNumeric(e.water_interval) \/ NonNumeric(e.fertilize_interval))

DueOn(p, day) ==
    \/ day >= p.last_watered.day + p.water_interval
    \/ day >= p.last_fertilized.day + p.fertilize_interval

\* C13: the reminders shown are the status lines of exactly the records of
\* the whole collection that need care today, in insertion order, whatever
\* the search term and the filtered view are.
C13_RemindersOverCollection ==
    [][ViewReminders =>
          LET due == SelectSeq(plants, LAMBDA id : DueOn(heap[id], now.day))
          IN  /\ Len(messagebox'.body) = Len(due)
              /\ \A i \in 1..Len(due) :
                    messagebox'.body[i] = status(heap[due[i]])]_vars

\* with a search term that hides the one record that is due, the reminders
\* name that record and not the record shown
C13_Witness ==
    /\ running
    /\ messagebox.title = "Today's Care Reminders"
    /\ search_var = <<"Y">>
    /\ Len(plants) = 2
    /\ filtered_plants = <<plants[2]>>
    /\ DueOn(heap[plants[1]], now.day)
    /\ ~DueOn(heap[plants[2]], now.day)
    /\ messagebox.body = <<status(heap[plants[1]])>>

\* C14: in every reachable state the filtered view is a subsequence of the
\* collection and every listed identity is a live object, so the record
\* delete_plant removes is in self.plants and the record update_care writes
\* to is a record of the collection.
C14_FilteredWithinCollection ==
    /\ Subsequence(filtered_plants, plants)
    /\ Range(plants) \subseteq DOMAIN heap
    /\ curselection # 0 => filtered_plants[curselection] \in Range(plants)

\* a record found by a search term was deleted: it left both lists
C14_Witness ==
    /\ running
    /\ messagebox.title = "Delete Plant"
    /\ messagebox.name = Ivy
    /\ curselection = 0
    /\ search_var = <<"Y">>
    /\ Len(plants) = 1
    /\ heap[plants[1]].name = Fern
    /\ filtered_plants = <<>>
    /\ listbox = <<>>

\* C15: in every state a handler leaves, the listbox has one row for each
\* element of filtered_plants, row i showing the status line of element i,
\* and the selected row, if any, is a row of the listbox: the record
\* update_care and delete_plant take from it is the record it shows.
C15_ListboxShowsFilteredView ==
    /\ Len(listbox) = Len(filtered_plants)
    /\ \A i \in 1..Len(listbox) :
          listbox[i].line = status(heap[filtered_plants[i]])
    /\ curselection \in 0..Len(filtered_plants)

\* the first of two rows was selected and its record watered a day after
\* its last watering: the row shows the new due date of that record
C15_Witness ==
    /\ running
    /\ Len(filtered_plants) = 2
    /\ heap[filtered_plants[1]].last_watered = now
    /\ heap[filtered_plants[1]].last_fertilized.day = Yesterday
    /\ listbox[1].line = status(heap[filtered_plants[1]])
    /\ listbox[1].line.water_by = now.day + heap[filtered_plants[1]].water_interval
    /\ listbox[1].line # listbox[2].line

====
